---- MODULE Spec2Model ----
(***************************************************************************)
(* Model of the workflow server of ragas_mcp                               *)
(* (src/mcp_workflow_server/server.py) and of the metric tool endpoints it *)
(* calls (src/mcp_metric_server/server.py, src/src/server.py).             *)
(*                                                                         *)
(* Specifications:                                                         *)
(*   SpecLocator  module initialisation: find_working_mcp_url over a       *)
(*                candidate list, the assignment of CONNECTION_MCP_METRICS,*)
(*                the registration of the workflow tool and mcp.run.       *)
(*   Spec         the serving process: the state after a successful module *)
(*                import, then orchestrations of                           *)
(*                evaluate_question_answer_with_context_workflow.          *)
(*   SpecMetric   one call of a metric tool of the metric server, in both  *)
(*                implementations, from entry to return or raise.          *)
(*   SpecResolver the provider resolver (src/src/my_llms.py) called in an  *)
(*                environment and a secrets directory.                     *)
(*   SpecSettings load_llm_settings of the same module, called with an     *)
(*                environment and a configuration file.                    *)
(*   SpecRun      one run of run_jobs: the five call_mcp tasks under       *)
(*                asyncio.gather, each with its transport and session;     *)
(*                FairSpecRun adds that the loop resumes run_jobs.         *)
(*                                                                         *)
(* Python values are tagged records ([kind |-> ...]) so that a float, a    *)
(* CallToolResult, a dict and an exception are told apart.                 *)
(***************************************************************************)
EXTENDS Naturals, Sequences, FiniteSets

VARIABLES
    urls,                    \* the argument of find_working_mcp_url
    idx,                     \* position of its for loop (1-based)
    probes,                  \* the requests.get calls issued so far, in order
    locState,                \* "running" | "returned" | "raised"
    locRet,                  \* the value find_working_mcp_url returned
    modPc,                   \* "import" | "defined" | "serving" | "import_error"
    CONNECTION_MCP_METRICS,  \* the module global
    deployed,                \* which metric server implementation answers
    req,                     \* the Evaluation Request being handled
    nested,                  \* TRUE: the handler runs inside a running event loop
    jobs,                    \* the jobs list of the handler
    opc,                     \* position of the handler / run_jobs
    sub,                     \* the five call_mcp coroutines
    ret,                     \* what the handler gave its caller
    nreq,                    \* orchestrations started so far
    call,                    \* the metric tool call being served
    credential,              \* TRUE: the API key the clients need is found
    lib,                     \* what the evaluation library answers this call
    tpc,                     \* position of the metric tool function
    tlog,                    \* warnings and log records it has emitted
    tret,                    \* what the metric tool gave its caller
    clients,                 \* the models of the clients the tool has built
    env,                     \* os.environ of the resolver
    secrets,                 \* the files of /run/secrets, by provider
    rcalls,                  \* resolver calls made so far
    rlast,                   \* the last resolver call and its outcome
    config,                  \* the config file of load_llm_settings
    fresh,                   \* TRUE: run_async starts a loop with asyncio.run
    task,                    \* the five call_mcp tasks of one run of run_jobs
    results,                 \* the list asyncio.gather fills
    gpc,                     \* position of that run of run_jobs
    gret                     \* what run_async gave the handler

locVars == <<urls, idx, probes, locState, locRet, modPc, CONNECTION_MCP_METRICS>>
orchVars == <<deployed, req, nested, jobs, opc, sub, ret, nreq>>
toolVars == <<call, credential, lib, tpc, tlog, tret, clients>>
resVars == <<env, secrets, rcalls, rlast, config>>
runVars == <<fresh, task, results, gpc, gret>>
sideVars == <<toolVars, resVars, runVars>>
vars == <<urls, idx, probes, locState, locRet, modPc, CONNECTION_MCP_METRICS,
          deployed, req, nested, jobs, opc, sub, ret, nreq,
          call, credential, lib, tpc, tlog, tret, clients,
          env, secrets, rcalls, rlast, config,
          fresh, task, results, gpc, gret>>

----------------------------------------------------------------------------
(* Bounds *)

MaxUrls == 3
MaxRequests == 2
MaxCalls == 2

----------------------------------------------------------------------------
(* Python values *)

NoValue == [kind |-> "none"]
Float(n) == [kind |-> "float", val |-> n]
Str(v) == [kind |-> "str", of |-> v]
TextContent(v) == [kind |-> "TextContent", text |-> Str(v)]
CallToolResult(err, c) == [kind |-> "CallToolResult", isError |-> err, content |-> c]
Raised(e) == [kind |-> "exception", error |-> e]
Dict(m) == [kind |-> "dict", map |-> m]

----------------------------------------------------------------------------
(* Metrics Service Locator *)

\* A URL is the sequence of its pieces; str.replace works on sub-sequences.
Url(host, port) == <<"http://", host, ":", port, "/mcp">>

POSSIBLE_MCP_METRICS_URLS ==
    << Url("mcp_metric_server", "8000"), Url("localhost", "8000") >>

\* The list of the workflow test, whose second candidate listens on 8001.
TEST_MCP_URLS ==
    << Url("mcp_workflow_server", "8000"), Url("localhost", "8001") >>

CandidateUrls ==
    { POSSIBLE_MCP_METRICS_URLS[1], POSSIBLE_MCP_METRICS_URLS[2], TEST_MCP_URLS[2] }

RECURSIVE SeqsUpTo(_, _)
SeqsUpTo(S, n) ==
    IF n = 0 THEN { <<>> }
    ELSE LET shorter == SeqsUpTo(S, n - 1)
         IN  shorter \cup { Append(s, x) : s \in shorter, x \in S }

UrlLists == SeqsUpTo(CandidateUrls, MaxUrls) \cup { TEST_MCP_URLS }

\* Python's str.replace(old, new): leftmost, non-overlapping occurrences.
RECURSIVE Replace(_, _, _)
Replace(s, old, new) ==
    IF Len(s) < Len(old) THEN s
    ELSE IF SubSeq(s, 1, Len(old)) = old
         THEN new \o Replace(SubSeq(s, Len(old) + 1, Len(s)), old, new)
         ELSE <<Head(s)>> \o Replace(Tail(s), old, new)

\* url.replace("8000/mcp", "8000")
ProbeTarget(url) == Replace(url, <<"8000", "/mcp">>, <<"8000">>)

\* What requests.get can do: raise, or answer with a status code.
StatusCodes == {200, 404, 499, 500, 503}
ProbeOutcomes == { [raised |-> TRUE, status |-> 0] }
                 \cup { [raised |-> FALSE, status |-> s] : s \in StatusCodes }

\* resp.status_code < 500
IsAliveOffByOne(o) == ~o.raised /\ o.status <= 500
IsAlive(o) == ~o.raised /\ o.status < 500

Probe(i, o) == [index |-> i, target |-> ProbeTarget(urls[i]), outcome |-> o]

\* A plausible slip: the URL that answered the probe is returned.
ProbeAliveReturnsTarget ==
    /\ locState = "running"
    /\ idx <= Len(urls)
    /\ \E o \in ProbeOutcomes :
         /\ IsAlive(o)
         /\ probes' = Append(probes, Probe(idx, o))
    /\ locState' = "returned"
    /\ locRet' = ProbeTarget(urls[idx])
    /\ UNCHANGED <<urls, idx, modPc, CONNECTION_MCP_METRICS>>
    /\ UNCHANGED orchVars
    /\ UNCHANGED sideVars

\* One pass of the for loop whose probe answers below 500: return url.
ProbeAlive ==
    /\ locState = "running"
    /\ idx <= Len(urls)
    /\ \E o \in ProbeOutcomes :
         /\ IsAlive(o)
         /\ probes' = Append(probes, Probe(idx, o))
    /\ locState' = "returned"
    /\ locRet' = urls[idx]
    /\ UNCHANGED <<urls, idx, modPc, CONNECTION_MCP_METRICS>>
    /\ UNCHANGED orchVars
    /\ UNCHANGED sideVars

\* One pass whose probe answers with a server error: fall through to the next url.
ProbeServerError ==
    /\ locState = "running"
    /\ idx <= Len(urls)
    /\ \E o \in ProbeOutcomes :
         /\ ~o.raised
         /\ ~IsAlive(o)
         /\ probes' = Append(probes, Probe(idx, o))
    /\ idx' = idx + 1
    /\ UNCHANGED <<urls, locState, locRet, modPc, CONNECTION_MCP_METRICS>>
    /\ UNCHANGED orchVars
    /\ UNCHANGED sideVars

\* A plausible slip: the exception of a probe escapes the loop.
ProbeRaisesAborts ==
    /\ locState = "running"
    /\ idx <= Len(urls)
    /\ probes' = Append(probes, Probe(idx, [raised |-> TRUE, status |-> 0]))
    /\ locState' = "raised"
    /\ UNCHANGED <<urls, idx, locRet, modPc, CONNECTION_MCP_METRICS>>
    /\ UNCHANGED orchVars
    /\ UNCHANGED sideVars

\* One pass whose requests.get raises: except Exception: continue.
ProbeRaises ==
    /\ locState = "running"
    /\ idx <= Len(urls)
    /\ probes' = Append(probes, Probe(idx, [raised |-> TRUE, status |-> 0]))
    /\ idx' = idx + 1
    /\ UNCHANGED <<urls, locState, locRet, modPc, CONNECTION_MCP_METRICS>>
    /\ UNCHANGED orchVars
    /\ UNCHANGED sideVars

\* A plausible slip: fall back to the last candidate instead of raising.
ExhaustedFallsBack ==
    /\ locState = "running"
    /\ idx > Len(urls)
    /\ Len(urls) > 0
    /\ locState' = "returned"
    /\ locRet' = urls[Len(urls)]
    /\ UNCHANGED <<urls, idx, probes, modPc, CONNECTION_MCP_METRICS>>
    /\ UNCHANGED orchVars
    /\ UNCHANGED sideVars

\* The loop ran out of candidates: raise RuntimeError.
Exhausted ==
    /\ locState = "running"
    /\ idx > Len(urls)
    /\ locState' = "raised"
    /\ UNCHANGED <<urls, idx, probes, locRet, modPc, CONNECTION_MCP_METRICS>>
    /\ UNCHANGED orchVars
    /\ UNCHANGED sideVars

----------------------------------------------------------------------------
(* Module initialisation of the workflow server *)

Unset == <<>>

\* CONNECTION_MCP_METRICS = find_working_mcp_url(...), then the definitions that
\* follow it, the @mcp.tool() registration of the workflow tool included.
ModuleAssign ==
    /\ modPc = "import"
    /\ locState = "returned"
    /\ CONNECTION_MCP_METRICS' = locRet
    /\ modPc' = "defined"
    /\ UNCHANGED <<urls, idx, probes, locState, locRet>>
    /\ UNCHANGED orchVars
    /\ UNCHANGED sideVars

\* The RuntimeError leaves the module body: nothing after line 35 runs.
ModuleImportError ==
    /\ modPc = "import"
    /\ locState = "raised"
    /\ modPc' = "import_error"
    /\ UNCHANGED <<urls, idx, probes, locState, locRet, CONNECTION_MCP_METRICS>>
    /\ UNCHANGED orchVars
    /\ UNCHANGED sideVars

\* if __name__ == "__main__": mcp.run(...)
Serve ==
    /\ modPc = "defined"
    /\ modPc' = "serving"
    /\ UNCHANGED <<urls, idx, probes, locState, locRet, CONNECTION_MCP_METRICS>>
    /\ UNCHANGED orchVars
    /\ UNCHANGED sideVars


----------------------------------------------------------------------------
(* Metric tool endpoints: the two servers of the repository *)

MetricServers == {"mcp_metric_server", "src"}

\* The parameters of each @mcp.tool() function. All but strictness have no
\* default, so they are required. (ctx: Context of src/src/server.py is injected
\* by the framework and is no argument of the call.)
ToolParams(impl, tool) ==
    CASE tool = "calculate_faithfulness" ->
           IF impl = "mcp_metric_server"
           THEN {"user_input", "response", "context", "eval_framework", "llm"}
           ELSE {"user_input", "response", "retrieved_contexts", "eval_framework", "llm"}
      [] tool = "calculate_answer_relevancy" ->
           {"user_input", "response", "eval_framework", "llm", "embedding_model",
            "strictness"}
      [] tool = "calculate_context_precision" ->
           {"user_input", "response", "retrieved_contexts", "eval_framework", "llm"}
      [] tool = "calculate_context_recall" ->
           {"user_input", "retrieved_contexts", "reference_answer", "eval_framework",
            "llm"}
      [] tool = "calculate_answer_correctness" ->
           {"user_input", "response", "reference_answer", "eval_framework", "llm",
            "embedding_model"}
      [] OTHER -> {}

ToolRequired(impl, tool) == ToolParams(impl, tool) \ {"strictness"}

\* The framework validates the arguments against the signature before the tool
\* body runs: a call that lacks a required parameter is answered with an error.
Rejected(impl, tool, args) == ToolRequired(impl, tool) \ DOMAIN args # {}

\* Scores are ten-thousandths: round(score, 4) of a score in [0, 1].
Scores == {0, 10000}

\* What the server answers to tools/call. A tool that raised, or arguments that do
\* not validate, are answered with a result whose isError is set.
ToolErrorResult(why) == CallToolResult(TRUE, <<TextContent(Raised(why))>>)
ToolScoreResult(s) == CallToolResult(FALSE, <<TextContent(Float(s))>>)

ServerAnswers(impl, tool, args) ==
    IF Rejected(impl, tool, args)
    THEN { ToolErrorResult("validation") }
    ELSE { ToolScoreResult(s) : s \in Scores } \cup { ToolErrorResult("tool raised") }

----------------------------------------------------------------------------
(* Workflow Orchestrator: evaluate_question_answer_with_context_workflow *)

Requests ==
    { [user_input |-> "q1", response |-> "a1", reference_answer |-> "ref1",
       retrieved_contexts |-> "ctx1", eval_framework |-> "ragas",
       llm |-> "gpt-4o-mini", embedding_model |-> "text-embedding-3-small"],
      [user_input |-> "q2", response |-> "a2", reference_answer |-> "",
       retrieved_contexts |-> "ctx2", eval_framework |-> "deepeval",
       llm |-> "llama", embedding_model |-> "ada"] }

NoRequest == [user_input |-> "", response |-> "", reference_answer |-> "",
              retrieved_contexts |-> "", eval_framework |-> "", llm |-> "",
              embedding_model |-> ""]

Job(name, args) == [name |-> name, args |-> args]

FaithfulnessArgs(r) ==
    [user_input |-> r.user_input, response |-> r.response,
     retrieved_contexts |-> r.retrieved_contexts,
     eval_framework |-> r.eval_framework, llm |-> r.llm]

RelevancyArgs(r) ==
    [user_input |-> r.user_input, response |-> r.response,
     eval_framework |-> r.eval_framework, llm |-> r.llm,
     embedding_model |-> r.embedding_model, strictness |-> 3]

PrecisionArgs(r) ==
    [user_input |-> r.user_input, response |-> r.response,
     retrieved_contexts |-> r.retrieved_contexts,
     eval_framework |-> r.eval_framework, llm |-> r.llm]

\* A plausible slip: the generated answer is passed as the reference answer.
RecallArgsPassResponse(r) ==
    [user_input |-> r.user_input,
     retrieved_contexts |-> r.retrieved_contexts,
     reference_answer |-> r.response,
     eval_framework |-> r.eval_framework, llm |-> r.llm]

RecallArgs(r) ==
    [user_input |-> r.user_input,
     retrieved_contexts |-> r.retrieved_contexts,
     reference_answer |-> r.reference_answer,
     eval_framework |-> r.eval_framework, llm |-> r.llm]

CorrectnessArgs(r) ==
    [user_input |-> r.user_input, response |-> r.response,
     reference_answer |-> r.reference_answer,
     eval_framework |-> r.eval_framework, llm |-> r.llm,
     embedding_model |-> r.embedding_model]

\* jobs = [...]
BuildJobs(r) ==
    << Job("calculate_faithfulness", FaithfulnessArgs(r)),
       Job("calculate_answer_relevancy", RelevancyArgs(r)),
       Job("calculate_context_precision", PrecisionArgs(r)),
       Job("calculate_context_recall", RecallArgs(r)),
       Job("calculate_answer_correctness", CorrectnessArgs(r)) >>

NJobs == 5
Subs == 1 .. NJobs

\* A call_mcp coroutine: "none" (not created), "coro" (created, not started),
\* "scheduled" (a task of the loop), "initializing" (transport and session
\* entered, initialize in flight), "calling" (call_tool in flight), and the ends
\* "returned", "raised", "cancelled" (session and transport left).
NoSub == [st |-> "none", tool |-> "", url |-> Unset, res |-> NoValue]
Finished == {"returned", "raised", "cancelled"}

\* {name: result for (name, _), result in zip(jobs, results)}
LastIndex(js, n, len) == CHOOSE i \in 1 .. len :
                            /\ js[i].name = n
                            /\ \A k \in 1 .. len : js[k].name = n => k <= i
ZipLen(js, rs) == IF Len(js) < Len(rs) THEN Len(js) ELSE Len(rs)
\* A plausible slip: the zip stops one pair short.
AggregateStopsShort(js, rs) ==
    [n \in { js[i].name : i \in 1 .. ZipLen(js, rs) - 1 } |->
        rs[LastIndex(js, n, ZipLen(js, rs) - 1)]]

Aggregate(js, rs) ==
    [n \in { js[i].name : i \in 1 .. ZipLen(js, rs) } |->
        rs[LastIndex(js, n, ZipLen(js, rs))]]

Results == [i \in Subs |-> sub[i].res]

\* The framework calls the tool with a request.
Invoke ==
    /\ modPc = "serving"
    /\ opc \in {"idle", "returned", "raised"}
    /\ nreq < MaxRequests
    /\ \E r \in Requests, n \in BOOLEAN :
         /\ req' = r
         /\ nested' = n
         /\ jobs' = BuildJobs(r)
    /\ opc' = "jobs"
    /\ sub' = [i \in Subs |-> NoSub]
    /\ ret' = NoValue
    /\ nreq' = nreq + 1
    /\ UNCHANGED deployed
    /\ UNCHANGED locVars
    /\ UNCHANGED sideVars

\* A plausible slip: run_until_complete is called on the running loop as it is.
NestNotApplied(n) == FALSE

\* import nest_asyncio; nest_asyncio.apply(): done exactly when a running loop
\* was found, and it makes that loop's run_until_complete re-entrant.
NestApplied(n) == n

\* loop.run_until_complete of a running loop that was not patched raises
\* RuntimeError("This event loop is already running").
ReentryError == Raised("RuntimeError: This event loop is already running")
ReentryRefused(n) == n /\ ~NestApplied(n)

\* A plausible slip: the nested branch lacks its return.
RunAsyncDropsNested(n, outcome) == IF n THEN NoValue ELSE outcome

\* return loop.run_until_complete(coro) / return asyncio.run(coro): what the
\* coroutine returned or raised is what run_async returns or raises.
RunAsyncResult(n, outcome) == outcome

\* run_async(run_jobs()) starts run_jobs, on a fresh loop (asyncio.run) or nested
\* on the running one; run_jobs builds the five coroutine objects.
StartRunJobs ==
    /\ opc = "jobs"
    /\ IF ReentryRefused(nested)
       THEN /\ opc' = "raised"
            /\ ret' = ReentryError
            /\ sub' = sub
       ELSE /\ opc' = "gather"
            /\ ret' = ret
            /\ sub' = [i \in Subs |->
                         [NoSub EXCEPT !.st = "coro", !.tool = jobs[i].name]]
    /\ UNCHANGED <<deployed, req, nested, jobs, nreq>>
    /\ UNCHANGED locVars
    /\ UNCHANGED sideVars

\* asyncio.gather(*tasks) wraps the coroutines in tasks, in argument order.
ScheduleTask ==
    /\ opc = "gather"
    /\ \E i \in Subs :
         /\ sub[i].st = "coro"
         /\ \A k \in Subs : k < i => sub[k].st # "coro"
         /\ sub' = [sub EXCEPT ![i].st = "scheduled"]
    /\ UNCHANGED <<deployed, req, nested, jobs, opc, ret, nreq>>
    /\ UNCHANGED locVars
    /\ UNCHANGED sideVars

\* A plausible slip: awaiting each call in turn (gather of what was started so far).
AllDispatchedOneByOne == \E i \in Subs : sub[i].st = "scheduled"
AllDispatched == \A i \in Subs : sub[i].st # "coro" /\ sub[i].st # "none"

\* results = await asyncio.gather(...): run_jobs yields to the loop.
AwaitGather ==
    /\ opc = "gather"
    /\ AllDispatched
    /\ opc' = "awaiting"
    /\ UNCHANGED <<deployed, req, nested, jobs, sub, ret, nreq>>
    /\ UNCHANGED locVars
    /\ UNCHANGED sideVars

\* The loop runs tasks while run_jobs waits and, nested on the caller's loop, also
\* after run_jobs has raised.
LoopRuns == opc = "awaiting" \/ (opc = "raised" /\ nested)

\* A plausible slip: each call connects to the head of the candidate list instead
\* of the endpoint resolved at import.
StartCallFirstCandidate(i) ==
    /\ LoopRuns
    /\ sub[i].st = "scheduled"
    /\ sub' = [sub EXCEPT ![i].st = "initializing",
                          ![i].url = POSSIBLE_MCP_METRICS_URLS[1]]
    /\ UNCHANGED <<deployed, req, nested, jobs, opc, ret, nreq>>
    /\ UNCHANGED locVars
    /\ UNCHANGED sideVars

\* The task starts and runs to its first wait: the transport and the session are
\* entered (async with streamablehttp_client(CONNECTION_MCP_METRICS),
\* ClientSession(...)) and session.initialize() is sent.
StartCall(i) ==
    /\ LoopRuns
    /\ sub[i].st = "scheduled"
    /\ sub' = [sub EXCEPT ![i].st = "initializing", ![i].url = CONNECTION_MCP_METRICS]
    /\ UNCHANGED <<deployed, req, nested, jobs, opc, ret, nreq>>
    /\ UNCHANGED locVars
    /\ UNCHANGED sideVars

\* session.initialize() returns and, with no wait in between,
\* session.call_tool(tool_name, args) is sent.
IssueCallTool(i) ==
    /\ LoopRuns
    /\ sub[i].st = "initializing"
    /\ sub' = [sub EXCEPT ![i].st = "calling"]
    /\ UNCHANGED <<deployed, req, nested, jobs, opc, ret, nreq>>
    /\ UNCHANGED locVars
    /\ UNCHANGED sideVars

\* return tool_result: the coroutine ends with the server's answer as its value.
CallMcpReturn(i, answer) ==
    [sub[i] EXCEPT !.st = "returned", !.res = answer]

\* tool_result = await session.call_tool(...); return tool_result
\* The server's answer is returned as it is, whatever its isError.
CallToolReturns(i) ==
    /\ LoopRuns
    /\ sub[i].st = "calling"
    /\ \E answer \in ServerAnswers(deployed, jobs[i].name, jobs[i].args) :
         sub' = [sub EXCEPT ![i] = CallMcpReturn(i, answer)]
    /\ UNCHANGED <<deployed, req, nested, jobs, opc, ret, nreq>>
    /\ UNCHANGED locVars
    /\ UNCHANGED sideVars

\* The transport cannot connect, initialize fails or times out, or the call is
\* answered with a protocol error or not at all: the coroutine raises.
SubRaises(i) ==
    /\ LoopRuns
    /\ sub[i].st \in {"initializing", "calling"}
    /\ sub' = [sub EXCEPT ![i].st = "raised", ![i].res = Raised("call_mcp")]
    /\ UNCHANGED <<deployed, req, nested, jobs, opc, ret, nreq>>
    /\ UNCHANGED locVars
    /\ UNCHANGED sideVars

AllReturned == \A i \in Subs : sub[i].st = "returned"

\* gather is done with five results: run_jobs returns the dict, run_async and the
\* handler return it.
GatherReturns ==
    /\ opc = "awaiting"
    /\ AllReturned
    /\ ret' = RunAsyncResult(nested, Dict(Aggregate(jobs, Results)))
    /\ opc' = "returned"
    /\ UNCHANGED <<deployed, req, nested, jobs, sub, nreq>>
    /\ UNCHANGED locVars
    /\ UNCHANGED sideVars

\* asyncio.run cancels the tasks still pending before it raises to the caller;
\* loop.run_until_complete on the running loop leaves them running.
AfterRaise(s) ==
    IF nested \/ s.st \in Finished THEN s ELSE [s EXCEPT !.st = "cancelled"]

\* gather raises the first exception of a sub-call: run_jobs, run_async and the
\* handler raise it.
GatherRaises ==
    /\ opc = "awaiting"
    /\ \E i \in Subs :
         /\ sub[i].st = "raised"
         /\ ret' = RunAsyncResult(nested, sub[i].res)
    /\ opc' = "raised"
    /\ sub' = [i \in Subs |-> AfterRaise(sub[i])]
    /\ UNCHANGED <<deployed, req, nested, jobs, nreq>>
    /\ UNCHANGED locVars
    /\ UNCHANGED sideVars

----------------------------------------------------------------------------
(* run_jobs: one run of the five call_mcp tasks under asyncio.gather, with *)
(* the transport and the session of each task                              *)

\* The jobs list of the run (the names do not depend on the request).
RunJobs == BuildJobs(CHOOSE r \in Requests : r.eval_framework = "ragas")

\* A call_mcp task: its position ("scheduled", "initializing", "calling",
\* "returned", "raised", "cancelled"), the transport and the session it entered
\* (0: none), whether they are still open, whether initialize has returned, the
\* number of call_tool requests it sent and what the coroutine ended with.
NoTask == [st |-> "scheduled", transport |-> 0, session |-> 0, open |-> FALSE,
           initialized |-> FALSE, ncalls |-> 0, res |-> NoValue]

\* A plausible slip: one session made at module level serves every task.
ModuleSession(i) == 1

\* ClientSession(read_stream, write_stream): an object made by this call of
\* call_mcp, named by the task that made it.
NewSession(i) == i

\* streamablehttp_client(CONNECTION_MCP_METRICS): likewise.
NewTransport(i) == i

\* Leaving both async with blocks: the session, then the transport, are closed.
ExitContexts(t) == [t EXCEPT !.open = FALSE]

\* A plausible slip: the list is filled in the order the tasks complete.
CollectAsCompleted(rs, i, v) ==
    LET k == CHOOSE k \in 1 .. Len(rs) :
                /\ rs[k] = NoValue
                /\ \A j \in 1 .. k - 1 : rs[j] # NoValue
    IN [rs EXCEPT ![k] = v]

\* asyncio.gather keeps the result of each awaitable at the position of the
\* awaitable in its arguments.
Collect(rs, i, v) == [rs EXCEPT ![i] = v]

\* The loop runs tasks while run_jobs waits and, nested on the caller's loop,
\* also after run_jobs has raised.
RunLoop == gpc = "awaiting" \/ (gpc = "raised" /\ ~fresh)

RunFrame == UNCHANGED <<locVars, orchVars, toolVars, resVars>>

\* async with streamablehttp_client(...) as (...): async with ClientSession(...)
\* as session: await session.initialize(): both contexts are entered and the
\* initialize request is sent.
EnterSession(i) ==
    /\ RunLoop
    /\ task[i].st = "scheduled"
    /\ task' = [task EXCEPT ![i].st = "initializing",
                            ![i].transport = NewTransport(i),
                            ![i].session = NewSession(i),
                            ![i].open = TRUE]
    /\ UNCHANGED <<fresh, results, gpc, gret>>
    /\ RunFrame

\* session.initialize() returns; tool_result = await session.call_tool(...) is
\* sent.
InitializeReturns(i) ==
    /\ RunLoop
    /\ task[i].st = "initializing"
    /\ task' = [task EXCEPT ![i].st = "calling",
                            ![i].initialized = TRUE,
                            ![i].ncalls = @ + 1]
    /\ UNCHANGED <<fresh, results, gpc, gret>>
    /\ RunFrame

\* session.initialize() raises: the exception leaves both async with blocks.
InitializeRaises(i) ==
    /\ RunLoop
    /\ task[i].st = "initializing"
    /\ task' = [task EXCEPT ![i] = ExitContexts([@ EXCEPT !.st = "raised",
                                                         !.res = Raised("initialize")])]
    /\ UNCHANGED <<fresh, results, gpc, gret>>
    /\ RunFrame

\* call_tool returns the server's answer; return tool_result leaves both async
\* with blocks and ends the task, whose result gather keeps while it waits.
CallToolAnswered(i) ==
    /\ RunLoop
    /\ task[i].st = "calling"
    /\ \E answer \in ServerAnswers("src", RunJobs[i].name, RunJobs[i].args) :
         /\ task' = [task EXCEPT ![i] = ExitContexts([@ EXCEPT !.st = "returned",
                                                              !.res = answer])]
         /\ results' = IF gpc = "awaiting" THEN Collect(results, i, answer)
                       ELSE results
    /\ UNCHANGED <<fresh, gpc, gret>>
    /\ RunFrame

\* call_tool raises (protocol error, connection lost).
CallToolRaises(i) ==
    /\ RunLoop
    /\ task[i].st = "calling"
    /\ task' = [task EXCEPT ![i] = ExitContexts([@ EXCEPT !.st = "raised",
                                                         !.res = Raised("call_tool")])]
    /\ UNCHANGED <<fresh, results, gpc, gret>>
    /\ RunFrame

TasksReturned == \A i \in Subs : task[i].st = "returned"

\* A plausible slip: gather is done as soon as four of its tasks are.
TasksMostlyReturned ==
    Cardinality({ i \in Subs : task[i].st = "returned" }) >= NJobs - 1

\* gather is done when each of its tasks is.
GatherDone == TasksReturned

\* results = await asyncio.gather(*tasks); return {name: result ...}
RunJobsReturns ==
    /\ gpc = "awaiting"
    /\ GatherDone
    /\ gret' = Dict(Aggregate(RunJobs, results))
    /\ gpc' = "returned"
    /\ UNCHANGED <<fresh, task, results>>
    /\ RunFrame

\* asyncio.run cancels the tasks still pending, and waits for them, before it
\* raises: CancelledError leaves both async with blocks.
Cancel(t) ==
    IF t.st \in Finished THEN t
    ELSE ExitContexts([t EXCEPT !.st = "cancelled"])

\* gather raises the exception of a task to run_jobs, and run_async to the
\* handler.
RunJobsRaises ==
    /\ gpc = "awaiting"
    /\ \E i \in Subs :
         /\ task[i].st = "raised"
         /\ gret' = task[i].res
    /\ gpc' = "raised"
    /\ task' = IF fresh THEN [i \in Subs |-> Cancel(task[i])] ELSE task
    /\ UNCHANGED <<fresh, results>>
    /\ RunFrame

\* No run of run_jobs is modelled.
RunIdle ==
    /\ fresh = TRUE
    /\ task = [i \in Subs |-> NoTask]
    /\ results = << >>
    /\ gpc = "idle"
    /\ gret = NoValue

----------------------------------------------------------------------------
(* Metric Tool Endpoint: one call of a metric tool function *)

MetricKeys ==
    {"calculate_faithfulness", "calculate_answer_relevancy",
     "calculate_context_precision", "calculate_context_recall",
     "calculate_answer_correctness"}

SUPPORTED_EVAL_FRAMEWORKS == <<"ragas">>

\* eval_framework not in SUPPORTED_EVAL_FRAMEWORKS (the comparison is exact).
Unsupported(framework) ==
    \A k \in 1 .. Len(SUPPORTED_EVAL_FRAMEWORKS) :
        SUPPORTED_EVAL_FRAMEWORKS[k] # framework

EvalFrameworks == {"ragas", "RAGAS", "deepeval"}
LlmIdents == {"gpt-4o-mini", "llama-3"}
EmbeddingModels == {"text-embedding-3-small", "all-MiniLM-L6"}

\* The tools that take embedding_model and build an embedding client.
UsesEmbedding(tool) ==
    tool \in {"calculate_answer_relevancy", "calculate_answer_correctness"}

ToolCalls ==
    UNION { { [tool |-> t, eval_framework |-> f, llm |-> l, embedding_model |-> e] :
                f \in EvalFrameworks, l \in LlmIdents,
                e \in (IF UsesEmbedding(t) THEN EmbeddingModels ELSE {""}) } :
            t \in MetricKeys }

NoToolCall == [tool |-> "", eval_framework |-> "", llm |-> "", embedding_model |-> ""]

\* What the evaluation library does with the call: a score, in millionths, or an
\* exception (the judge model cannot be reached, its answer cannot be parsed).
LibScores == {0, 49, 51, 150, 333333, 666667, 999949, 999951, 1000000}
LibOutcomes ==
    { [kind |-> "score", raw |-> r] : r \in LibScores }
        \cup { [kind |-> "raises", error |-> "ScoringError"] }

\* A plausible slip: the score is cut to 4 decimals instead of rounded.
Round4Truncates(raw) == raw \div 100

\* round(score, 4): the nearest ten-thousandth, a tie going to the even one.
\* The argument is in millionths, the result in ten-thousandths.
Round4(raw) ==
    LET q == raw \div 100
        r == raw % 100
    IN  IF r < 50 THEN q
        ELSE IF r > 50 THEN q + 1
        ELSE IF q % 2 = 0 THEN q ELSE q + 1

LogRec(level, about) == [level |-> level, about |-> about]

\* log_info / log_error of src/src/server.py; mcp_metric_server/server.py has
\* neither.
LogInfo(impl, about) ==
    IF impl = "src" THEN << LogRec("info", about) >> ELSE << >>
LogError(impl, e) ==
    IF impl = "src" THEN << LogRec("error", e) >> ELSE << >>

\* "gpt" in llm_ident
ContainsGpt(ident) == ident \in {"gpt-4o", "gpt-4o-mini", "gpt-3.5-turbo"}

\* get_llm(llm). mcp_metric_server/my_llms.py needs OPENAI_API_KEY and an
\* identifier with "gpt" in it; src/src/my_llms.py ignores its argument and
\* raises when load_api_key finds no key.
GetLlm(impl, ident, cred) ==
    IF ~cred THEN Raised("EnvironmentError")
    ELSE IF impl = "mcp_metric_server" /\ ~ContainsGpt(ident)
         THEN Raised("ValueError")
    ELSE [kind |-> "llm_client"]

\* get_embedding_model(embedding_model): the same key is needed;
\* mcp_metric_server/my_llms.py warns when the name is not the supported one.
GetEmbeddingModel(impl, model, cred) ==
    IF ~cred THEN Raised("EnvironmentError")
    ELSE [kind |-> "embedding_client"]
EmbeddingWarning(impl, model) ==
    IF impl = "mcp_metric_server" /\ model # "text-embedding-3-small"
    THEN << LogRec("warning", "embedding_model") >> ELSE << >>

\* The model load_llm_settings names: LLM_MODEL, the llm.model of the config
\* file or the provider's entry of MODEL_DEFAULTS.
SettingsModels == {"gpt-4o-mini", "claude-2"}

\* The model of the LLM client: ChatOpenAI(model=llm_ident) in
\* mcp_metric_server/my_llms.py; llm_args["model"] in src/src/my_llms.py, whose
\* get_llm(model) does not read its argument.
LlmModel(impl, ident, configured) ==
    IF impl = "mcp_metric_server" THEN ident ELSE configured

\* The model of the embedding client: mcp_metric_server/my_llms.py replaces
\* every name by the supported one; src/src/my_llms.py does not read its
\* argument and takes the provider's entry of EMBEDDING_MODEL_DEFAULTS.
EmbeddingModel(impl, model) == "text-embedding-3-small"

NoClients == [llm |-> "", emb |-> ""]

\* The exception of llm_obj = get_llm(llm); embedding_obj =
\* get_embedding_model(embedding_model), or NoValue when both are built.
ClientsError(impl, c, cred) ==
    IF GetLlm(impl, c.llm, cred).kind = "exception"
    THEN GetLlm(impl, c.llm, cred)
    ELSE IF UsesEmbedding(c.tool)
            /\ GetEmbeddingModel(impl, c.embedding_model, cred).kind = "exception"
         THEN GetEmbeddingModel(impl, c.embedding_model, cred)
    ELSE NoValue

\* A plausible slip: an unknown framework is refused.
CheckFrameworkRejects ==
    /\ tpc = "called"
    /\ tlog' = tlog \o LogInfo(deployed, "start")
    /\ IF Unsupported(call.eval_framework)
       THEN tpc' = "raised" /\ tret' = Raised("ValueError")
       ELSE tpc' = "checked" /\ tret' = tret
    /\ UNCHANGED <<call, credential, lib, clients>>
    /\ UNCHANGED <<locVars, orchVars, resVars, runVars>>

\* The tool function is entered: log_info (src/src/server.py only), then, if
\* eval_framework is not in SUPPORTED_EVAL_FRAMEWORKS, one warning
\* (warnings.warn, or log_warning) and nothing else.
CheckFramework ==
    /\ tpc = "called"
    /\ tlog' = tlog \o LogInfo(deployed, "start")
                    \o (IF Unsupported(call.eval_framework)
                        THEN << LogRec("warning", "eval_framework") >>
                        ELSE << >>)
    /\ tpc' = "checked"
    /\ UNCHANGED <<call, credential, lib, tret, clients>>
    /\ UNCHANGED <<locVars, orchVars, resVars, runVars>>

\* llm_obj = get_llm(llm) and, for the two tools that embed,
\* embedding_obj = get_embedding_model(embedding_model) are built.
BuildClients ==
    /\ tpc = "checked"
    /\ ClientsError(deployed, call, credential) = NoValue
    /\ tlog' = tlog \o (IF UsesEmbedding(call.tool)
                        THEN EmbeddingWarning(deployed, call.embedding_model)
                        ELSE << >>)
    /\ tpc' = "clients"
    /\ \E configured \in SettingsModels :
         clients' = [llm |-> LlmModel(deployed, call.llm, configured),
                     emb |-> IF UsesEmbedding(call.tool)
                             THEN EmbeddingModel(deployed, call.embedding_model)
                             ELSE ""]
    /\ UNCHANGED <<call, credential, lib, tret>>
    /\ UNCHANGED <<locVars, orchVars, resVars, runVars>>

\* A client constructor raises: src/src/server.py logs the error and raises it
\* again, mcp_metric_server/server.py lets it pass.
BuildClientsRaises ==
    /\ tpc = "checked"
    /\ ClientsError(deployed, call, credential) # NoValue
    /\ tret' = ClientsError(deployed, call, credential)
    /\ tlog' = tlog \o LogError(deployed, ClientsError(deployed, call, credential).error)
    /\ tpc' = "raised"
    /\ UNCHANGED <<call, credential, lib, clients>>
    /\ UNCHANGED <<locVars, orchVars, resVars, runVars>>

\* return round(score_x(...), 4), with a log_info before it in src/src/server.py.
ScoreReturns ==
    /\ tpc = "clients"
    /\ lib.kind = "score"
    /\ tret' = Float(Round4(lib.raw))
    /\ tlog' = tlog \o LogInfo(deployed, "score")
    /\ tpc' = "returned"
    /\ UNCHANGED <<call, credential, lib, clients>>
    /\ UNCHANGED <<locVars, orchVars, resVars, runVars>>

\* A plausible slip: a failed scoring is answered with the lowest score.
ScoreRaisesReturnsDefault ==
    /\ tpc = "clients"
    /\ lib.kind = "raises"
    /\ tret' = Float(0)
    /\ tlog' = tlog \o LogError(deployed, lib.error)
    /\ tpc' = "returned"
    /\ UNCHANGED <<call, credential, lib, clients>>
    /\ UNCHANGED <<locVars, orchVars, resVars, runVars>>

\* score_x raises: except Exception as e: log_error(...); raise in
\* src/src/server.py, no handler at all in mcp_metric_server/server.py.
ScoreRaises ==
    /\ tpc = "clients"
    /\ lib.kind = "raises"
    /\ tret' = Raised(lib.error)
    /\ tlog' = tlog \o LogError(deployed, lib.error)
    /\ tpc' = "raised"
    /\ UNCHANGED <<call, credential, lib, clients>>
    /\ UNCHANGED <<locVars, orchVars, resVars, runVars>>

ToolIdle ==
    /\ call = NoToolCall
    /\ credential = FALSE
    /\ lib = NoValue
    /\ tpc = "idle"
    /\ tlog = << >>
    /\ tret = NoValue
    /\ clients = NoClients

----------------------------------------------------------------------------
(* Provider Resolver *)

API_SECRET_DIR == "/run/secrets"
SUPPORTED_PROVIDERS == <<"openai", "azure", "lite", "custom", "anthropic">>
Providers == { SUPPORTED_PROVIDERS[k] : k \in 1 .. Len(SUPPORTED_PROVIDERS) }

\* f"{provider.upper()}_API_KEY"
ApiKeyVar(p) ==
    CASE p = "openai" -> "OPENAI_API_KEY"
      [] p = "azure" -> "AZURE_API_KEY"
      [] p = "lite" -> "LITE_API_KEY"
      [] p = "custom" -> "CUSTOM_API_KEY"
      [] p = "anthropic" -> "ANTHROPIC_API_KEY"

EnvNames ==
    {"LLM_PROVIDER", "EMBEDDING_PROVIDER", "API_KEY",
     "LLM_MODEL", "LLM_TEMPERATURE", "LLM_MAX_TOKENS", "LLM_EXTRA_PARAMS"}
        \cup { ApiKeyVar(p) : p \in Providers }

\* os.getenv(name) of a variable that is not in the environment (None).
NotSet == "<not set>"

NoFile == [exists |-> FALSE, text |-> << >>]
File(text) == [exists |-> TRUE, text |-> text]

\* The environments and secrets directories the resolver is called in. Only
\* openai, azure and anthropic are given keys; each secret file has one content.
LlmProviderValues == {NotSet, "", "OpenAI", "anthropic", "bedrock"}
EmbeddingProviderValues == {NotSet, "Azure", "anthropic", "bedrock"}
OpenaiKeyValues == {NotSet, "", "sk-openai"}
AzureKeyValues == {NotSet, "az-key"}
AnthropicKeyValues == {NotSet, "sk-ant"}
GenericKeyValues == {NotSet, "", "generic-key"}

SecretText(p) ==
    CASE p = "openai" -> << " ", "s", "k", "\n" >>
      [] p = "azure" -> << "\n" >>
      [] p = "anthropic" -> << "a", " ", "k" >>
      [] OTHER -> << >>
FiledProviders == {"openai", "azure", "anthropic"}

\* str.lower() on the names of LlmProviderValues and EmbeddingProviderValues.
Lower(name) ==
    CASE name = "OpenAI" -> "openai"
      [] name = "Azure" -> "azure"
      [] OTHER -> name

IsSpace(c) == c \in {" ", "\n", "\t"}

\* str.strip(): leading and trailing whitespace removed.
RECURSIVE LStrip(_)
LStrip(t) ==
    IF t = << >> THEN t
    ELSE IF IsSpace(Head(t)) THEN LStrip(Tail(t)) ELSE t
RECURSIVE RStrip(_)
RStrip(t) ==
    IF t = << >> THEN t
    ELSE IF IsSpace(t[Len(t)]) THEN RStrip(SubSeq(t, 1, Len(t) - 1)) ELSE t
Strip(t) == LStrip(RStrip(t))

\* A str read from a file, as its characters.
Chars(t) == [kind |-> "str", chars |-> t]

\* os.getenv(name) is truthy: set and not empty.
Given(name) == env[name] # NotSet /\ env[name] # ""

\* os.path.isfile(os.path.join(API_SECRET_DIR, f"{p}_api_key"))
IsFile(p) == secrets[p].exists

\* A plausible slip: the fallback is the last supported provider.
LastProvider == SUPPORTED_PROVIDERS[Len(SUPPORTED_PROVIDERS)]

\* return "openai", the last line of detect_provider and of
\* detect_embedding_provider.
DefaultProvider == "openai"

\* for p in SUPPORTED_PROVIDERS: if isfile(secret_file) or getenv(KEY): return p
RECURSIVE ScanProviders(_)
ScanProviders(k) ==
    IF k > Len(SUPPORTED_PROVIDERS) THEN DefaultProvider
    ELSE IF IsFile(SUPPORTED_PROVIDERS[k]) \/ Given(ApiKeyVar(SUPPORTED_PROVIDERS[k]))
         THEN SUPPORTED_PROVIDERS[k]
    ELSE ScanProviders(k + 1)

\* A plausible slip: every credential file is looked for before any variable.
RECURSIVE ScanFiles(_)
ScanFiles(k) ==
    IF k > Len(SUPPORTED_PROVIDERS) THEN ""
    ELSE IF IsFile(SUPPORTED_PROVIDERS[k]) THEN SUPPORTED_PROVIDERS[k]
    ELSE ScanFiles(k + 1)
RECURSIVE ScanVars(_)
ScanVars(k) ==
    IF k > Len(SUPPORTED_PROVIDERS) THEN DefaultProvider
    ELSE IF Given(ApiKeyVar(SUPPORTED_PROVIDERS[k])) THEN SUPPORTED_PROVIDERS[k]
    ELSE ScanVars(k + 1)
detect_provider_files_first ==
    IF Given("LLM_PROVIDER") /\ Lower(env["LLM_PROVIDER"]) \in Providers
    THEN Str(Lower(env["LLM_PROVIDER"]))
    ELSE IF ScanFiles(1) # "" THEN Str(ScanFiles(1))
    ELSE Str(ScanVars(1))

detect_provider ==
    IF Given("LLM_PROVIDER") /\ Lower(env["LLM_PROVIDER"]) \in Providers
    THEN Str(Lower(env["LLM_PROVIDER"]))
    ELSE Str(ScanProviders(1))

\* The keys of EMBEDDING_MODEL_DEFAULTS: anthropic has no embedding model.
EmbeddingProviders == {"openai", "azure", "lite", "custom"}

\* A plausible slip: without a usable EMBEDDING_PROVIDER the LLM provider is used.
detect_embedding_provider_follows_llm ==
    IF Given("EMBEDDING_PROVIDER")
       /\ Lower(env["EMBEDDING_PROVIDER"]) \in EmbeddingProviders
    THEN Str(Lower(env["EMBEDDING_PROVIDER"]))
    ELSE detect_provider

detect_embedding_provider ==
    IF Given("EMBEDDING_PROVIDER")
       /\ Lower(env["EMBEDDING_PROVIDER"]) \in EmbeddingProviders
    THEN Str(Lower(env["EMBEDDING_PROVIDER"]))
    ELSE Str(DefaultProvider)

\* A plausible slip: the generic API_KEY serves every provider.
load_api_key_generic_for_all(provider) ==
    IF IsFile(provider) THEN Chars(Strip(secrets[provider].text))
    ELSE IF Given(ApiKeyVar(provider)) THEN Str(env[ApiKeyVar(provider)])
    ELSE IF Given("API_KEY") THEN Str(env["API_KEY"])
    ELSE Raised("EnvironmentError")

load_api_key(provider) ==
    IF IsFile(provider) THEN Chars(Strip(secrets[provider].text))
    ELSE IF Given(ApiKeyVar(provider)) THEN Str(env[ApiKeyVar(provider)])
    ELSE IF provider = "openai" /\ Given("API_KEY") THEN Str(env["API_KEY"])
    ELSE Raised("EnvironmentError")

\* MODEL_DEFAULTS of src/src/my_llms.py.
MODEL_DEFAULTS ==
    [openai |-> "gpt-4o-mini", azure |-> "gpt-4o-mini", lite |-> "gpt-4o-mini",
     custom |-> "gpt-4o-mini", anthropic |-> "claude-2"]

\* A Python int.
IntVal(n) == [kind |-> "int", val |-> n]

\* A dict with no key.
EmptyMap == [k \in {} |-> NoValue]

\* dict.update(): the keys of b are set in a, the other keys of a are kept.
Update(a, b) ==
    [k \in DOMAIN a \cup DOMAIN b |-> IF k \in DOMAIN b THEN b[k] ELSE a[k]]

\* A plausible slip: the keys already in a are kept.
UpdateKeepsOld(a, b) ==
    [k \in DOMAIN a \cup DOMAIN b |-> IF k \in DOMAIN a THEN a[k] ELSE b[k]]

\* dict.pop(key): the dict without the key.
Pop(a, key) == [k \in DOMAIN a \ {key} |-> a[k]]

\* os.getenv(name, default)
Getenv(name, default) == IF env[name] = NotSet THEN default ELSE env[name]

\* The settings environments load_llm_settings is called in.
LlmModelValues == {NotSet, "gpt-4o"}
LlmTemperatureValues == {NotSet, "0.7"}
LlmMaxTokensValues == {NotSet, "256"}
LlmExtraParamsValues == {NotSet, "{\"top_p\": 1}", "{\"model\": \"o1\"}"}

\* float(text) on "0.0" and LlmTemperatureValues, in ten-thousandths.
ParseFloat(text) ==
    CASE text = "0.0" -> Float(0)
      [] text = "0.7" -> Float(7000)

\* int(text) on "1024" and LlmMaxTokensValues.
ParseInt(text) ==
    CASE text = "1024" -> IntVal(1024)
      [] text = "256" -> IntVal(256)

\* json.loads(text) on "{}" and LlmExtraParamsValues.
JsonLoads(text) ==
    CASE text = "{}" -> EmptyMap
      [] text = "{\"top_p\": 1}" -> [top_p |-> IntVal(1)]
      [] text = "{\"model\": \"o1\"}" -> [model |-> Str("o1")]

\* The contents of the file at CONFIG_FILE_DEFAULT, as the loader parses them:
\* an empty document (None), a mapping without "llm", and mappings whose "llm"
\* sets core keys, a new key, a dict of extra_params, or a str for extra_params.
ConfigData ==
    { NoValue,
      Dict(EmptyMap),
      Dict([llm |-> Dict([model |-> Str("claude-3")])]),
      Dict([llm |-> Dict([temperature |-> Float(2000),
                          max_tokens |-> IntVal(64),
                          timeout |-> IntVal(30)])]),
      Dict([llm |-> Dict([extra_params |-> Dict([top_p |-> IntVal(2)])])]),
      Dict([llm |-> Dict([model |-> Str("claude-3"),
                          extra_params |-> Dict([model |-> Str("o3"),
                                                 temperature |-> Float(9000)])])]),
      Dict([llm |-> Dict([extra_params |-> Str("fast")])]) }

\* os.path.isfile(cfg_file)
ConfigIsFile == config.exists

\* settings = {...}: the four keys read from the environment.
EnvSettings(provider) ==
    [model |-> Str(Getenv("LLM_MODEL",
                          IF provider \in DOMAIN MODEL_DEFAULTS
                          THEN MODEL_DEFAULTS[provider]
                          ELSE MODEL_DEFAULTS["openai"])),
     temperature |-> ParseFloat(Getenv("LLM_TEMPERATURE", "0.0")),
     max_tokens |-> ParseInt(Getenv("LLM_MAX_TOKENS", "1024")),
     extra_params |-> Dict(JsonLoads(Getenv("LLM_EXTRA_PARAMS", "{}")))]

\* file_cfg = data.get("llm", {})
FileCfg(data) ==
    IF "llm" \in DOMAIN data.map THEN data.map["llm"].map ELSE EmptyMap

\* for k, v in file_cfg.items(): extra_params of a dict updates the extra
\* parameters, any other key (or value) is assigned.
Overlay(settings, file_cfg) ==
    [k \in DOMAIN settings \cup DOMAIN file_cfg |->
        IF k \notin DOMAIN file_cfg THEN settings[k]
        ELSE IF k = "extra_params" /\ file_cfg[k].kind = "dict"
             THEN Dict(Update(settings[k].map, file_cfg[k].map))
             ELSE file_cfg[k]]

\* A plausible slip: the extra parameters do not replace the keys set before.
FlattenKeepsCore(settings) ==
    IF settings["extra_params"].kind = "dict"
    THEN Dict(UpdateKeepsOld(Pop(settings, "extra_params"),
                             settings["extra_params"].map))
    ELSE Raised("ValueError")

\* extra = settings.pop("extra_params", {}); settings.update(extra); return
\* settings. update() of a str raises ValueError.
Flatten(settings) ==
    IF settings["extra_params"].kind = "dict"
    THEN Dict(Update(Pop(settings, "extra_params"), settings["extra_params"].map))
    ELSE Raised("ValueError")

\* data.get on the None of an empty document raises AttributeError.
load_llm_settings(provider) ==
    IF ~ConfigIsFile THEN Flatten(EnvSettings(provider))
    ELSE IF config.text.kind # "dict" THEN Raised("AttributeError")
    ELSE Flatten(Overlay(EnvSettings(provider), FileCfg(config.text)))

NoResolverCall == [fn |-> "", arg |-> "", out |-> NoValue]
ResolverCall(fn, arg, out) == [fn |-> fn, arg |-> arg, out |-> out]

CallDetectProvider ==
    /\ rcalls < MaxCalls
    /\ rcalls' = rcalls + 1
    /\ rlast' = ResolverCall("detect_provider", "", detect_provider)
    /\ UNCHANGED <<env, secrets, config>>
    /\ UNCHANGED <<locVars, orchVars, toolVars, runVars>>

CallDetectEmbeddingProvider ==
    /\ rcalls < MaxCalls
    /\ rcalls' = rcalls + 1
    /\ rlast' = ResolverCall("detect_embedding_provider", "", detect_embedding_provider)
    /\ UNCHANGED <<env, secrets, config>>
    /\ UNCHANGED <<locVars, orchVars, toolVars, runVars>>

CallLoadApiKey(provider) ==
    /\ rcalls < MaxCalls
    /\ rcalls' = rcalls + 1
    /\ rlast' = ResolverCall("load_api_key", provider, load_api_key(provider))
    /\ UNCHANGED <<env, secrets, config>>
    /\ UNCHANGED <<locVars, orchVars, toolVars, runVars>>

CallLoadLlmSettings(provider) ==
    /\ rcalls < MaxCalls
    /\ rcalls' = rcalls + 1
    /\ rlast' = ResolverCall("load_llm_settings", provider,
                             load_llm_settings(provider))
    /\ UNCHANGED <<env, secrets, config>>
    /\ UNCHANGED <<locVars, orchVars, toolVars, runVars>>

ResolverIdle ==
    /\ env = [n \in EnvNames |-> NotSet]
    /\ secrets = [p \in Providers |-> NoFile]
    /\ rcalls = 0
    /\ rlast = NoResolverCall
    /\ config = NoFile

----------------------------------------------------------------------------
(* Specifications *)

OrchIdle ==
    /\ req = NoRequest
    /\ nested = FALSE
    /\ jobs = <<>>
    /\ opc = "idle"
    /\ sub = [i \in Subs |-> NoSub]
    /\ ret = NoValue
    /\ nreq = 0

\* find_working_mcp_url is entered with a candidate list.
InitLocator ==
    /\ urls \in UrlLists
    /\ idx = 1
    /\ probes = <<>>
    /\ locState = "running"
    /\ locRet = Unset
    /\ modPc = "import"
    /\ CONNECTION_MCP_METRICS = Unset
    /\ deployed = "src"
    /\ OrchIdle
    /\ ToolIdle
    /\ RunIdle
    /\ ResolverIdle

NextLocator ==
    \/ ProbeAlive
    \/ ProbeServerError
    \/ ProbeRaises
    \/ Exhausted
    \/ ModuleAssign
    \/ ModuleImportError
    \/ Serve

SpecLocator == InitLocator /\ [][NextLocator]_vars

\* The serving process: the module was imported with POSSIBLE_MCP_METRICS_URLS,
\* the k-th candidate was the first alive one, and mcp.run was called.
Init ==
    /\ urls = POSSIBLE_MCP_METRICS_URLS
    /\ \E k \in 1 .. Len(POSSIBLE_MCP_METRICS_URLS) :
         /\ idx = k
         /\ probes = [j \in 1 .. k |->
                        Probe(j, IF j < k THEN [raised |-> TRUE, status |-> 0]
                                 ELSE [raised |-> FALSE, status |-> 200])]
         /\ locRet = urls[k]
         /\ CONNECTION_MCP_METRICS = urls[k]
    /\ locState = "returned"
    /\ modPc = "serving"
    /\ deployed \in MetricServers
    /\ OrchIdle
    /\ ToolIdle
    /\ RunIdle
    /\ ResolverIdle

Next ==
    \/ Invoke
    \/ StartRunJobs
    \/ ScheduleTask
    \/ AwaitGather
    \/ \E i \in Subs : StartCall(i)
    \/ \E i \in Subs : IssueCallTool(i)
    \/ \E i \in Subs : CallToolReturns(i)
    \/ \E i \in Subs : SubRaises(i)
    \/ GatherReturns
    \/ GatherRaises

Spec == Init /\ [][Next]_vars

\* The workflow module is not part of the process.
WorkflowIdle ==
    /\ urls = POSSIBLE_MCP_METRICS_URLS
    /\ idx = 1
    /\ probes = << >>
    /\ locState = "running"
    /\ locRet = Unset
    /\ modPc = "import"
    /\ CONNECTION_MCP_METRICS = Unset
    /\ OrchIdle

\* A metric tool of either metric server is called.
InitMetric ==
    /\ WorkflowIdle
    /\ ResolverIdle
    /\ RunIdle
    /\ deployed \in MetricServers
    /\ call \in ToolCalls
    /\ credential \in BOOLEAN
    /\ lib \in LibOutcomes
    /\ tpc = "called"
    /\ tlog = << >>
    /\ tret = NoValue
    /\ clients = NoClients

NextMetric ==
    \/ CheckFramework
    \/ BuildClients
    \/ BuildClientsRaises
    \/ ScoreReturns
    \/ ScoreRaises

SpecMetric == InitMetric /\ [][NextMetric]_vars

\* The resolver is about to be called in some environment, with some secrets.
InitResolver ==
    /\ WorkflowIdle
    /\ ToolIdle
    /\ RunIdle
    /\ deployed = "src"
    /\ \E lp \in LlmProviderValues, ep \in EmbeddingProviderValues,
          ok \in OpenaiKeyValues, zk \in AzureKeyValues,
          ak \in AnthropicKeyValues, gk \in GenericKeyValues :
         env = [n \in EnvNames |->
                  CASE n = "LLM_PROVIDER" -> lp
                    [] n = "EMBEDDING_PROVIDER" -> ep
                    [] n = "OPENAI_API_KEY" -> ok
                    [] n = "AZURE_API_KEY" -> zk
                    [] n = "ANTHROPIC_API_KEY" -> ak
                    [] n = "API_KEY" -> gk
                    [] OTHER -> NotSet]
    /\ \E present \in SUBSET FiledProviders :
         secrets = [p \in Providers |->
                      IF p \in present THEN File(SecretText(p)) ELSE NoFile]
    /\ rcalls = 0
    /\ rlast = NoResolverCall
    /\ config = NoFile

NextResolver ==
    \/ CallDetectProvider
    \/ CallDetectEmbeddingProvider
    \/ \E p \in Providers : CallLoadApiKey(p)

SpecResolver == InitResolver /\ [][NextResolver]_vars

InitSettings ==
    /\ WorkflowIdle
    /\ ToolIdle
    /\ RunIdle
    /\ deployed = "src"
    /\ \E m \in LlmModelValues, t \in LlmTemperatureValues,
          n \in LlmMaxTokensValues, x \in LlmExtraParamsValues :
         env = [v \in EnvNames |->
                  CASE v = "LLM_MODEL" -> m
                    [] v = "LLM_TEMPERATURE" -> t
                    [] v = "LLM_MAX_TOKENS" -> n
                    [] v = "LLM_EXTRA_PARAMS" -> x
                    [] OTHER -> NotSet]
    /\ secrets = [p \in Providers |-> NoFile]
    /\ config \in {NoFile} \cup { File(d) : d \in ConfigData }
    /\ rcalls = 0
    /\ rlast = NoResolverCall

NextSettings == \E p \in Providers : CallLoadLlmSettings(p)

SpecSettings == InitSettings /\ [][NextSettings]_vars

\* run_jobs has wrapped its five coroutines in tasks and waits in gather.
InitRun ==
    /\ WorkflowIdle
    /\ ToolIdle
    /\ ResolverIdle
    /\ deployed = "src"
    /\ fresh \in BOOLEAN
    /\ task = [i \in Subs |-> NoTask]
    /\ results = [i \in Subs |-> NoValue]
    /\ gpc = "awaiting"
    /\ gret = NoValue

NextRun ==
    \/ \E i \in Subs : EnterSession(i)
    \/ \E i \in Subs : InitializeReturns(i)
    \/ \E i \in Subs : InitializeRaises(i)
    \/ \E i \in Subs : CallToolAnswered(i)
    \/ \E i \in Subs : CallToolRaises(i)
    \/ RunJobsReturns
    \/ RunJobsRaises

SpecRun == InitRun /\ [][NextRun]_vars

\* The loop keeps running run_jobs: when gather can finish, it does.
FairSpecRun == SpecRun /\ WF_vars(RunJobsReturns) /\ WF_vars(RunJobsRaises)


----------------------------------------------------------------------------
(* Claims about the Metrics Service Locator, checked under SpecLocator *)

DeadProbe(o) == o.raised \/ o.status >= 500
AliveProbe(o) == ~o.raised /\ o.status < 500

\* C1: find_working_mcp_url returns the first URL, in list order, whose probe
\* completes with a status below 500: every candidate before it raised or
\* answered >= 500. A probe that raises is skipped and does not abort the search:
\* the function raises only after the last candidate was probed.
C1_FirstAliveReturned ==
    /\ locState = "returned" =>
         /\ Len(probes) \in 1 .. Len(urls)
         /\ locRet = urls[Len(probes)]
         /\ AliveProbe(probes[Len(probes)].outcome)
         /\ \A j \in 1 .. Len(probes) - 1 : DeadProbe(probes[j].outcome)
    /\ locState = "raised" =>
         /\ Len(probes) = Len(urls)
         /\ \A j \in 1 .. Len(probes) : DeadProbe(probes[j].outcome)

\* [A, B] with A unreachable and B answering 200 resolves to B.
C1_Witness ==
    /\ Len(urls) = 2
    /\ urls[1] # urls[2]
    /\ locState = "returned"
    /\ Len(probes) = 2
    /\ probes[1].outcome.raised
    /\ probes[2].outcome = [raised |-> FALSE, status |-> 200]
    /\ locRet = urls[2]

NoCandidateAlive ==
    /\ Len(probes) = Len(urls)
    /\ \A j \in 1 .. Len(probes) : DeadProbe(probes[j].outcome)

\* C2: when no candidate answers below 500, find_working_mcp_url raises instead
\* of returning a URL, CONNECTION_MCP_METRICS is never assigned, the workflow tool
\* is never registered or served, and no candidate is probed a second time.
C2_NoneAliveHaltsImport ==
    /\ NoCandidateAlive =>
         /\ locState # "returned"
         /\ locRet = Unset
         /\ CONNECTION_MCP_METRICS = Unset
         /\ modPc \in {"import", "import_error"}
    /\ Len(probes) <= Len(urls)
    /\ \A j \in 1 .. Len(probes) : probes[j].index = j

\* Two candidates, both dead: the import ended with the error.
C2_Witness ==
    /\ Len(urls) = 2
    /\ NoCandidateAlive
    /\ locState = "raised"
    /\ modPc = "import_error"

\* The candidate without its RPC path suffix.
BaseHost(url) ==
    IF Len(url) > 0 /\ url[Len(url)] = "/mcp" THEN SubSeq(url, 1, Len(url) - 1)
    ELSE url

\* C3: every probe is a GET to the candidate's base host, the /mcp suffix
\* removed, and the candidate counts as alive (the search returns it) exactly
\* when the status is below 500.
C3_ProbeTargetsBaseHost ==
    \A j \in 1 .. Len(probes) :
        /\ probes[j].target = BaseHost(urls[probes[j].index])
        /\ AliveProbe(probes[j].outcome) <=> (locState = "returned" /\ j = Len(probes))

----------------------------------------------------------------------------
(* Claims about the Workflow Orchestrator, checked under Spec *)

SubSucceeded(i) ==
    /\ sub[i].st = "returned"
    /\ sub[i].res.kind = "CallToolResult"
    /\ ~sub[i].res.isError

SubFailed(i) ==
    \/ sub[i].st = "raised"
    \/ /\ sub[i].st = "returned"
       /\ sub[i].res.kind = "CallToolResult"
       /\ sub[i].res.isError

\* C4: when all five sub-calls succeed, the result is a mapping whose key set
\* is exactly the five metric tool names.
C4_ExactlyFiveKeys ==
    (opc = "returned" /\ \A i \in Subs : SubSucceeded(i)) =>
        /\ ret.kind = "dict"
        /\ DOMAIN ret.map = MetricKeys

C4_Witness ==
    /\ opc = "returned"
    /\ \A i \in Subs : SubSucceeded(i)
    /\ ret.kind = "dict"

\* The job table of the specification.
TableFields(name) ==
    CASE name = "calculate_faithfulness" ->
           {"user_input", "response", "retrieved_contexts", "eval_framework", "llm"}
      [] name = "calculate_answer_relevancy" ->
           {"user_input", "response", "eval_framework", "llm", "embedding_model",
            "strictness"}
      [] name = "calculate_context_precision" ->
           {"user_input", "response", "retrieved_contexts", "eval_framework", "llm"}
      [] name = "calculate_context_recall" ->
           {"user_input", "retrieved_contexts", "reference_answer", "eval_framework",
            "llm"}
      [] name = "calculate_answer_correctness" ->
           {"user_input", "response", "reference_answer", "eval_framework", "llm",
            "embedding_model"}
      [] OTHER -> {}

\* C5: the orchestrator derives exactly five jobs, one per metric, with the
\* argument fields of the table, strictness always 3, and every other argument
\* equal to the request field of the same name.
C5_JobsDerivedFromRequest ==
    opc # "idle" =>
        /\ Len(jobs) = 5
        /\ { jobs[i].name : i \in 1 .. Len(jobs) } = MetricKeys
        /\ \A i \in 1 .. Len(jobs) :
             /\ DOMAIN jobs[i].args = TableFields(jobs[i].name)
             /\ \A f \in DOMAIN jobs[i].args :
                  IF f = "strictness" THEN jobs[i].args[f] = 3
                  ELSE jobs[i].args[f] = req[f]

C5_Witness ==
    /\ opc = "jobs"
    /\ req.eval_framework = "deepeval"
    /\ Len(jobs) = 5
    /\ jobs[4].args.reference_answer = ""

Dispatched(i) == sub[i].st \notin {"none", "coro"}
Running(i) == sub[i].st \notin {"none", "coro", "scheduled"}

\* C6: all five sub-calls are dispatched before the orchestrator waits on any
\* of them and before any of them runs, and the orchestrator returns a result
\* map only after all five have completed.
C6_AllDispatchedThenAllAwaited ==
    /\ opc = "awaiting" => \A i \in Subs : Dispatched(i)
    /\ (\E i \in Subs : Running(i)) => \A i \in Subs : Dispatched(i)
    /\ opc = "returned" => \A i \in Subs : sub[i].st = "returned"

\* All five call_tool requests are in flight at the same time.
C6_Witness ==
    /\ opc = "awaiting"
    /\ \A i \in Subs : sub[i].st = "calling"

\* C7: if any sub-call fails, the handler propagates a failure: it never returns
\* a result map in which a failed sub-call is omitted or stands as an entry.
C7_FailurePropagates ==
    (opc = "returned" /\ ret.kind = "dict") =>
        /\ \A i \in Subs : ~SubFailed(i)
        /\ \A n \in DOMAIN ret.map : ~ret.map[n].isError

\* C8: call_mcp raises whenever the server answers the tool call with an error;
\* it returns a value only when the remote tool call succeeded.
C8_CallMcpRaisesOnToolError ==
    \A i \in Subs :
        (sub[i].st = "returned" /\ sub[i].res.kind = "CallToolResult") =>
            ~sub[i].res.isError

\* C9: the value under each key of the aggregated result is the scalar score of
\* that metric, a float in [0, 1], not an object wrapped around it.
C9_ValuesAreScalarScores ==
    (opc = "returned" /\ ret.kind = "dict" /\ \A i \in Subs : SubSucceeded(i)) =>
        \A n \in DOMAIN ret.map :
            /\ ret.map[n].kind = "float"
            /\ ret.map[n].val \in 0 .. 10000

\* C10: every argument name a job sends is a parameter of the endpoint of the
\* same name, and every required parameter of the endpoint is sent, so that no
\* sub-call is rejected for its arguments.
C10_ArgumentsMatchEndpoint ==
    opc # "idle" =>
        \A i \in 1 .. Len(jobs) :
            /\ DOMAIN jobs[i].args \subseteq ToolParams(deployed, jobs[i].name)
            /\ ToolRequired(deployed, jobs[i].name) \subseteq DOMAIN jobs[i].args
            /\ ~Rejected(deployed, jobs[i].name, jobs[i].args)

\* C11: the service endpoint is the one resolved when the module was imported and
\* no step of the serving process assigns it again; every sub-call of every
\* orchestration, the first and the later ones, connects to that same URL.
C11_EndpointNeverReassigned ==
    [][ /\ CONNECTION_MCP_METRICS' = CONNECTION_MCP_METRICS
        /\ CONNECTION_MCP_METRICS' = locRet'
        /\ \A i \in Subs :
             sub'[i].url # Unset => sub'[i].url = CONNECTION_MCP_METRICS ]_vars

\* The second orchestration has connected all five sub-calls, to the second
\* candidate of the list.
C11_Witness ==
    /\ nreq = 2
    /\ CONNECTION_MCP_METRICS = POSSIBLE_MCP_METRICS_URLS[2]
    /\ \A i \in Subs : sub[i].url = CONNECTION_MCP_METRICS

\* C12: run_async runs the coroutine to completion and returns exactly what it
\* returned, or raises exactly what it raised, on a fresh loop and nested on a
\* running one alike.
C12_RunAsyncReturnsCoroutineOutcome ==
    /\ opc = "returned" =>
          /\ AllReturned
          /\ ret = Dict(Aggregate(jobs, Results))
    /\ opc = "raised" =>
          \E i \in Subs : sub[i].st = "raised" /\ ret = sub[i].res

\* Nested on a running loop, run_async has returned the dict of run_jobs.
C12_Witness ==
    /\ nested
    /\ opc = "returned"
    /\ ret.kind = "dict"
    /\ DOMAIN ret.map = MetricKeys

Lingering(i) == sub[i].st \in {"scheduled", "initializing", "calling"}
SubStep(i) == StartCall(i) \/ IssueCallTool(i) \/ CallToolReturns(i)

----------------------------------------------------------------------------
(* Claims about the Metric Tool Endpoint, checked under SpecMetric *)

FrameworkWarnings ==
    Cardinality({ k \in 1 .. Len(tlog) : tlog[k] = LogRec("warning", "eval_framework") })

ToolEnded == tpc \in {"returned", "raised"}

\* What fails a call whatever its eval_framework: a client that cannot be built
\* or a scoring that raises.
ClientsFail == ClientsError(deployed, call, credential) # NoValue
ScoringFails == lib.kind = "raises"

\* C14: a metric tool called with an unsupported eval_framework emits exactly
\* one warning for it and does not fail because of it: it ends as the same call
\* with "ragas" ends, returning the rounded library score unless a client or
\* the scoring fails.
C14_UnknownFrameworkOnlyWarns ==
    /\ (tpc \in {"checked", "clients"} \/ ToolEnded) =>
          FrameworkWarnings = (IF Unsupported(call.eval_framework) THEN 1 ELSE 0)
    /\ (ToolEnded /\ Unsupported(call.eval_framework)) =>
          /\ tpc = "returned" <=> (~ClientsFail /\ ~ScoringFails)
          /\ tpc = "returned" => tret = Float(Round4(lib.raw))

\* The old metric server has returned a score for eval_framework "deepeval".
C14_Witness ==
    /\ deployed = "mcp_metric_server"
    /\ call.eval_framework = "deepeval"
    /\ tpc = "returned"
    /\ tret.kind = "float"
    /\ FrameworkWarnings = 1

Distance(a, b) == IF a >= b THEN a - b ELSE b - a

C16_FailureIsRaisedNotScored ==
    /\ (ToolEnded /\ (ClientsFail \/ ScoringFails)) =>
          /\ tpc = "raised"
          /\ tret.kind = "exception"
          /\ tret = (IF ClientsFail THEN ClientsError(deployed, call, credential)
                     ELSE Raised(lib.error))
          /\ deployed = "src" =>
                /\ Len(tlog) > 0
                /\ tlog[Len(tlog)] = LogRec("error", tret.error)
    /\ tpc = "returned" => (~ClientsFail /\ ~ScoringFails)

\* The scoring of src/src/server.py has raised and the tool has raised it on.
C16_Witness ==
    /\ deployed = "src"
    /\ tpc = "raised"
    /\ ~ClientsFail
    /\ ScoringFails
    /\ tret = Raised("ScoringError")

----------------------------------------------------------------------------
(* Claims about the Provider Resolver, checked under SpecResolver *)

HasCredential(p) == IsFile(p) \/ Given(ApiKeyVar(p))
WithFile == { p \in Providers : IsFile(p) }
WithVar == { p \in Providers : Given(ApiKeyVar(p)) }
WithCredential == { p \in Providers : HasCredential(p) }

Position(p) == CHOOSE k \in 1 .. Len(SUPPORTED_PROVIDERS) : SUPPORTED_PROVIDERS[k] = p
FirstOf(S) == CHOOSE p \in S : \A q \in S : Position(p) <= Position(q)

LlmOverride == Given("LLM_PROVIDER") /\ Lower(env["LLM_PROVIDER"]) \in Providers
Detected == rlast.fn = "detect_provider"
DetectedEmbedding == rlast.fn = "detect_embedding_provider"
Loaded(p) == rlast.fn = "load_api_key" /\ rlast.arg = p

\* C17 as stated: detect_provider returns LLM_PROVIDER (lower-cased) when it
\* names a supported provider; otherwise the provider whose credential file
\* exists; otherwise the provider whose <PROVIDER>_API_KEY variable is set;
\* otherwise "openai": a credential file beats another provider's variable.
C17_StrictPriority ==
    Detected =>
        rlast.out = Str(IF LlmOverride THEN Lower(env["LLM_PROVIDER"])
                        ELSE IF WithFile # {} THEN FirstOf(WithFile)
                        ELSE IF WithVar # {} THEN FirstOf(WithVar)
                        ELSE "openai")

\* C17, amended: detect_provider returns LLM_PROVIDER (lower-cased) when it
\* names a supported provider; otherwise the first provider, in the order
\* openai, azure, lite, custom, anthropic, that has a credential file or a
\* non-empty <PROVIDER>_API_KEY variable; otherwise "openai".
C17_FirstProviderWithFileOrVar ==
    Detected =>
        rlast.out = Str(IF LlmOverride THEN Lower(env["LLM_PROVIDER"])
                        ELSE IF WithCredential # {} THEN FirstOf(WithCredential)
                        ELSE "openai")

\* Only anthropic has a credential file, openai only a variable, and openai is
\* what detect_provider returned.
C17_Witness ==
    /\ Detected
    /\ ~LlmOverride
    /\ WithFile = {"anthropic"}
    /\ Given("OPENAI_API_KEY")
    /\ rlast.out = Str("openai")

\* C18 as stated: with LLM_PROVIDER unset detect_provider returns "openai", and
\* with EMBEDDING_PROVIDER unset detect_embedding_provider returns "openai".
C18_UnsetMeansOpenai ==
    /\ (Detected /\ env["LLM_PROVIDER"] = NotSet) => rlast.out = Str("openai")
    /\ (DetectedEmbedding /\ env["EMBEDDING_PROVIDER"] = NotSet) =>
          rlast.out = Str("openai")

DefaultsHold ==
    /\ (Detected /\ env["LLM_PROVIDER"] = NotSet) =>
          (rlast.out = Str("openai")
              <=> (HasCredential("openai") \/ WithCredential = {}))
    /\ (DetectedEmbedding /\ env["EMBEDDING_PROVIDER"] = NotSet) =>
          rlast.out = Str("openai")

\* C18, amended: with LLM_PROVIDER unset detect_provider returns "openai"
\* exactly when openai has a credential file or key variable or no provider
\* has one; with EMBEDDING_PROVIDER unset detect_embedding_provider returns
\* "openai"; and a call repeated in the same environment and secrets directory
\* returns what it returned before.
C18_DefaultWhenNoCredential ==
    [][ /\ DefaultsHold'
        /\ (rlast.fn = rlast'.fn /\ rlast.arg = rlast'.arg) =>
              rlast'.out = rlast.out ]_vars

\* Nothing is configured and the second detect_provider call in a row has
\* returned "openai".
C18_Witness ==
    /\ Detected
    /\ rcalls = 2
    /\ env["LLM_PROVIDER"] = NotSet
    /\ WithCredential = {}
    /\ rlast.out = Str("openai")

\* r is t without its leading and trailing whitespace.
IsStripOf(t, r) ==
    \E i \in 1 .. Len(t) + 1, j \in 0 .. Len(t) :
        /\ r = SubSeq(t, i, j)
        /\ \A k \in 1 .. i - 1 : IsSpace(t[k])
        /\ \A k \in j + 1 .. Len(t) : IsSpace(t[k])
        /\ r # << >> => (~IsSpace(r[1]) /\ ~IsSpace(r[Len(r)]))

\* C19: load_api_key(provider) returns the stripped contents of the provider's
\* secret file when the file exists; otherwise a non-empty <PROVIDER>_API_KEY;
\* otherwise, for "openai" only, a non-empty API_KEY; otherwise it raises. For
\* the other providers API_KEY is never used.
C19_KeyLookupOrder ==
    \A p \in Providers :
        Loaded(p) =>
            IF IsFile(p)
            THEN /\ rlast.out.kind = "str"
                 /\ IsStripOf(secrets[p].text, rlast.out.chars)
            ELSE IF Given(ApiKeyVar(p)) THEN rlast.out = Str(env[ApiKeyVar(p)])
            ELSE IF p = "openai" /\ Given("API_KEY") THEN rlast.out = Str(env["API_KEY"])
            ELSE rlast.out = Raised("EnvironmentError")

\* anthropic has no file and no variable of its own; API_KEY is set; the call
\* has raised.
C19_Witness ==
    /\ Loaded("anthropic")
    /\ ~HasCredential("anthropic")
    /\ Given("API_KEY")
    /\ rlast.out = Raised("EnvironmentError")

\* C20: with LLM_PROVIDER, or EMBEDDING_PROVIDER, set to a name that is not a
\* supported provider, resolution fails with an error instead of going on
\* with another provider.
C20_UnsupportedProviderIsFatal ==
    /\ (Detected /\ Given("LLM_PROVIDER")
            /\ Lower(env["LLM_PROVIDER"]) \notin Providers) =>
          rlast.out.kind = "exception"
    /\ (DetectedEmbedding /\ Given("EMBEDDING_PROVIDER")
            /\ Lower(env["EMBEDDING_PROVIDER"]) \notin Providers) =>
          rlast.out.kind = "exception"

\* What EMBEDDING_PROVIDER alone selects.
EmbeddingChoice(value) ==
    CASE value = "Azure" -> "azure"
      [] value = "azure" -> "azure"
      [] value = "openai" -> "openai"
      [] value = "lite" -> "lite"
      [] value = "custom" -> "custom"
      [] OTHER -> "openai"

\* C21: what detect_embedding_provider returns is decided by EMBEDDING_PROVIDER
\* alone, whatever LLM_PROVIDER, the credential files and the API-key variables
\* are, and it is "openai" when EMBEDDING_PROVIDER is unset or names no
\* embedding-capable provider.
C21_EmbeddingProviderIndependent ==
    DetectedEmbedding =>
        /\ rlast.out = Str(EmbeddingChoice(env["EMBEDDING_PROVIDER"]))
        /\ (~Given("EMBEDDING_PROVIDER")
              \/ Lower(env["EMBEDDING_PROVIDER"]) \notin EmbeddingProviders) =>
                 rlast.out = Str("openai")

\* EMBEDDING_PROVIDER is unset, LLM_PROVIDER is anthropic with a credential
\* file, and the embedding provider is "openai".
C21_Witness ==
    /\ DetectedEmbedding
    /\ env["EMBEDDING_PROVIDER"] = NotSet
    /\ env["LLM_PROVIDER"] = "anthropic"
    /\ IsFile("anthropic")
    /\ ~HasCredential("openai")
    /\ rlast.out = Str("openai")

----------------------------------------------------------------------------
(* Claims about the clients of a metric tool call, checked under SpecMetric *)

EmbeddingWarnings ==
    Cardinality({ k \in 1 .. Len(tlog) : tlog[k] = LogRec("warning", "embedding_model") })

ClientsBuilt == tpc \in {"clients", "returned"} \/ (tpc = "raised" /\ ~ClientsFail)

\* C22: get_embedding_model called with a model name other than
\* text-embedding-3-small is not refused: it emits one warning and builds the
\* client for text-embedding-3-small; called with that name it emits no warning.
C22_UnsupportedEmbeddingWarned ==
    (UsesEmbedding(call.tool) /\ ClientsBuilt) =>
        /\ clients.emb = "text-embedding-3-small"
        /\ EmbeddingWarnings =
              (IF call.embedding_model = "text-embedding-3-small" THEN 0 ELSE 1)

\* C24: the LLM client built for a metric tool call has the model the llm
\* argument names, and a call whose llm argument is not a recognised identifier
\* ends by raising.
C24_LlmArgumentIsJudge ==
    /\ ClientsBuilt => clients.llm = call.llm
    /\ (ToolEnded /\ ~ContainsGpt(call.llm)) => tpc = "raised"

\* The call of load_llm_settings that has returned or raised.
LoadedSettings == rlast.fn = "load_llm_settings"
Settings == rlast.out.map
FileKeys == IF ConfigIsFile THEN DOMAIN FileCfg(config.text) \ {"extra_params"} ELSE {}
CoreKeys == {"model", "temperature", "max_tokens"}

\* The value a core key has from the environment: LLM_MODEL or the provider's
\* default, LLM_TEMPERATURE or 0.0, LLM_MAX_TOKENS or 1024, each replaced by
\* the key of the same name in LLM_EXTRA_PARAMS.
EnvDefaults(provider) ==
    Update(Pop(EnvSettings(provider), "extra_params"),
           EnvSettings(provider)["extra_params"].map)

\* The extra parameters in force: LLM_EXTRA_PARAMS, updated by the file's
\* extra_params dict.
ExtraParams ==
    IF ConfigIsFile /\ "extra_params" \in DOMAIN FileCfg(config.text)
    THEN Update(JsonLoads(Getenv("LLM_EXTRA_PARAMS", "{}")),
                FileCfg(config.text)["extra_params"].map)
    ELSE JsonLoads(Getenv("LLM_EXTRA_PARAMS", "{}"))

\* C23: the settings load_llm_settings returns carry, for every key of the
\* file's llm mapping other than extra_params, the file's value; a core key
\* absent from the file keeps its environment-derived value; without a file
\* the result is the environment-derived defaults alone.
C23_FileOverlaysEnvironment ==
    (LoadedSettings /\ rlast.out.kind = "dict") =>
        /\ \A k \in FileKeys : Settings[k] = FileCfg(config.text)[k]
        /\ \A k \in CoreKeys \ FileKeys : Settings[k] = EnvDefaults(rlast.arg)[k]
        /\ ~ConfigIsFile => Settings = EnvDefaults(rlast.arg)

\* C23 (amended): a key of the extra parameters in force has the extra
\* parameter's value; any other key of the file's llm mapping has the file's
\* value; any other core key has its environment-derived value; there is no
\* further key.
C23_FileOverlaysUnlessExtra ==
    (LoadedSettings /\ rlast.out.kind = "dict") =>
        /\ DOMAIN Settings = CoreKeys \cup FileKeys \cup DOMAIN ExtraParams
        /\ \A k \in DOMAIN Settings :
             Settings[k] =
                IF k \in DOMAIN ExtraParams THEN ExtraParams[k]
                ELSE IF k \in FileKeys THEN FileCfg(config.text)[k]
                ELSE EnvSettings(rlast.arg)[k]

C23_Witness ==
    /\ LoadedSettings
    /\ env["LLM_MODEL"] = "gpt-4o"
    /\ env["LLM_EXTRA_PARAMS"] = NotSet
    /\ ConfigIsFile
    /\ config.text = Dict([llm |-> Dict([model |-> Str("claude-3")])])
    /\ rlast.out.kind = "dict"
    /\ Settings["model"] = Str("claude-3")
    /\ Settings["temperature"] = Float(0)

\* The tool names of the five jobs, in the order of the jobs list.
ToolNames == { RunJobs[i].name : i \in Subs }

\* C25: whatever the order in which the five sub-calls complete, the aggregated
\* result has exactly the five tool names as keys and pairs each with what the
\* sub-call issued for that tool returned.
C25_ResultsPairedByTool ==
    gpc = "returned" =>
        /\ gret.kind = "dict"
        /\ DOMAIN gret.map = ToolNames
        /\ \A i \in Subs : gret.map[RunJobs[i].name] = task[i].res

C25_Witness ==
    /\ gpc = "returned"
    /\ task[1].res = ToolScoreResult(0)
    /\ task[2].res = ToolErrorResult("tool raised")
    /\ task[5].res = ToolScoreResult(10000)
    /\ gret.map["calculate_faithfulness"] = ToolScoreResult(0)
    /\ gret.map["calculate_answer_correctness"] = ToolScoreResult(10000)

\* A sub-call in flight: its task is on the loop and has not ended.
InFlight(i) == sub[i].st \in {"scheduled", "initializing", "calling"}

\* C26: when the handler has returned or raised to its caller, no sub-call of
\* the orchestration is in flight, whether run_async started a fresh loop or
\* nested on the running one.
C26_NoSubCallInFlight ==
    opc \in {"returned", "raised"} => \A i \in Subs : ~InFlight(i)

\* The sub-calls that have entered their transport and session.
Started == { i \in Subs : task[i].st # "scheduled" /\ task[i].session # 0 }

\* C27: every sub-call has a transport and a session of its own (five started
\* sub-calls have five sessions); call_tool is sent only after initialize has
\* returned, and at most once, exactly once when the sub-call returns; the
\* session and the transport are open while the sub-call waits and closed once
\* it has returned or raised, whether initialize or call_tool raised.
C27_OwnSessionInitializeThenCall ==
    /\ \A i \in Started : \A j \in Started \ {i} :
          /\ task[i].session # task[j].session
          /\ task[i].transport # task[j].transport
    /\ Cardinality({ task[i].session : i \in Started }) = Cardinality(Started)
    /\ \A i \in Subs :
          /\ task[i].ncalls > 0 => task[i].initialized
          /\ task[i].ncalls <= 1
          /\ task[i].st \in {"initializing", "calling"} => task[i].open
          /\ task[i].st = "initializing" => task[i].ncalls = 0
          /\ task[i].st \in {"calling", "returned"} => task[i].ncalls = 1
          /\ task[i].st \in {"returned", "raised"} =>
                /\ task[i].session # 0
                /\ ~task[i].open

\* Five sub-calls ended, one by a failed initialize, one by a failed call_tool,
\* three by an answer: five sessions, all closed.
C27_Witness ==
    /\ Started = Subs
    /\ task[1].st = "raised" /\ task[1].ncalls = 0
    /\ task[2].st = "raised" /\ task[2].ncalls = 1
    /\ \A i \in 3 .. NJobs : task[i].st = "returned" /\ task[i].ncalls = 1
    /\ Cardinality({ task[i].session : i \in Subs }) = NJobs
    /\ \A i \in Subs : ~task[i].open

\* C28: the probes of find_working_mcp_url follow the list: the j-th probe is of
\* the j-th candidate, so no candidate is probed twice; only the last probe can
\* be alive, and then the search has returned that candidate as it stands in
\* the list; an empty list is never probed and returns nothing.
C28_ProbesInListOrder ==
    /\ Len(probes) <= Len(urls)
    /\ \A j \in 1 .. Len(probes) :
          /\ probes[j].index = j
          /\ probes[j].target = ProbeTarget(urls[j])
          /\ AliveProbe(probes[j].outcome) =>
                /\ j = Len(probes)
                /\ locState = "returned"
    /\ locState = "returned" =>
          /\ Len(probes) >= 1
          /\ AliveProbe(probes[Len(probes)].outcome)
          /\ locRet = urls[Len(probes)]
    /\ urls = << >> =>
          /\ probes = << >>
          /\ locState \in {"running", "raised"}
          /\ locRet = Unset

\* The deployed list, the first candidate answering 503 and the second 404: the
\* second is returned with its /mcp path, which the probed URL lacks.
C28_Witness ==
    /\ urls = POSSIBLE_MCP_METRICS_URLS
    /\ locState = "returned"
    /\ Len(probes) = 2
    /\ probes[1].outcome = [raised |-> FALSE, status |-> 503]
    /\ probes[2].outcome = [raised |-> FALSE, status |-> 404]
    /\ locRet = urls[2]
    /\ locRet # probes[2].target

TasksEnded == \A i \in Subs : task[i].st \in Finished
RunEnded == gpc \in {"returned", "raised"}

\* C29: once each of the five sub-calls has returned or raised, the
\* orchestration eventually returns or raises; and it leaves its wait only
\* when all five have returned or one has raised, so with four returned and
\* one that never completes it waits for ever.
C29_EndsWhenSubCallsEnd ==
    /\ TasksEnded ~> RunEnded
    /\ [][(gpc = "awaiting" /\ gpc' # "awaiting") =>
             (TasksReturned \/ \E i \in Subs : task[i].st = "raised")]_vars

\* Four sub-calls have returned, the fifth waits for its answer, and run_jobs
\* still waits.
C29_Witness ==
    /\ gpc = "awaiting"
    /\ \A i \in 1 .. NJobs - 1 : task[i].st = "returned"
    /\ task[NJobs].st = "calling"

====
